---- MODULE Spec2Model ----
(***************************************************************************)
(* Ukkonen's on-line suffix tree construction, as implemented by           *)
(* make_stree in ukkonen.py.  The node store is the pair (g, f): g[v] is   *)
(* the edge dictionary of node v (symbol -> <<k, p, s>>) and f[v] its      *)
(* suffix link.  Nodes are numbered in the order State() is called.        *)
(* The loops of make_stree, update and canonize are modelled one           *)
(* iteration per step, with pc naming the position in the code.            *)
(***************************************************************************)
EXTENDS Integers, Sequences, FiniteSets, TLC

\* ---------------------------------------------------------------- bounds
MaxLen == 5
AlphabetSize == 3

\* ------------------------------------------------------------- constants
INF == 1000000      \* float('inf'): larger than every index and difference
None == 0           \* Python None, as a node reference
Root == 1           \* root = State()
Bot == 2            \* bot = State()
Pad == " "          \* t = ' ' + t

Sym == <<"a", "b", "c", "d", "e">>
Alphabet == {Sym[j] : j \in 1..AlphabetSize}

Cacao == <<"c", "a", "c", "a", "o">>
Mississippi == <<"m", "i", "s", "s", "i", "s", "s", "i", "p", "p", "i", "$">>

\* an input whose last phase leaves the loop of update at an explicit node
\* other than the root while a split node waits for its link (line 57)
Abaabab == <<"a", "b", "a", "a", "b", "a", "b">>

Words == UNION {[1..m -> Alphabet] : m \in 0..MaxLen}
Inputs == Words \cup {Cacao, Mississippi, Abaabab}

VARIABLES t, g, f, s, k, i, p, pc, ret, oldr, r, end_point,
          k_prime, p_prime, s_prime, reads, steps, err, dump, result, run, first,
          splits, entry

vars == <<t, g, f, s, k, i, p, pc, ret, oldr, r, end_point,
          k_prime, p_prime, s_prime, reads, steps, err, dump, result, run, first,
          splits, entry>>

\* ------------------------------------------------------------- sequence t
\* len(t) - 1: the length of the input, t being the padded sequence
n == Cardinality(DOMAIN t) - 1

\* t[j] with Python's indexing: j < 0 counts from the end
InRange(j) == j \in (0 - (n + 1))..n
At(j) == IF j \in 0..n THEN t[j]
         ELSE IF j \in (0 - (n + 1))..(0 - 1) THEN t[j + n + 1]
         ELSE "IndexError"

Padded(w) == [j \in 0..Len(w) |-> IF j = 0 THEN Pad ELSE w[j]]

\* set(t)
SymbolsOf(w) == {w[j] : j \in 1..Len(w)}

\* the possible iteration orders of set(t)
Orders(S) == {q \in [1..Cardinality(S) -> S] : \A a, b \in DOMAIN q : q[a] = q[b] => a = b}

\* ------------------------------------------------------------ node store
NoEdges == [c \in {} |-> <<0, 0, 0>>]

\* State.__init__
NewState(G) == Append(G, NoEdges)
NewLink(F) == Append(F, None)

SetEdge(G, v, c, e) == [G EXCEPT ![v] = [d \in (DOMAIN G[v]) \cup {c} |-> IF d = c THEN e ELSE G[v][d]]]
PopEdge(G, v, c) == [G EXCEPT ![v] = [d \in (DOMAIN G[v]) \ {c} |-> G[v][d]]]

\* for i, v in enumerate(set(t)): bot.g[v] = (-i-1, -i-1, root)
BotEdgeFor_FixedEnd(j) == <<0 - j, 0 - 1, Root>>
BotEdgeFor(j) == <<0 - j, 0 - j, Root>>
BotEdges(q) == [c \in {q[j] : j \in DOMAIN q} |->
                  BotEdgeFor(CHOOSE j \in DOMAIN q : q[j] = c)]

\* line 93: k = 1
InitialK_Zero == 1 - 1
InitialK == 1

\* make_stree(w), lines 87-94, with set(t) iterating in the order q
Setup(w, q) ==
    /\ t' = Padded(w)
    /\ g' = <<NoEdges, BotEdges(q)>>
    /\ f' = <<Bot, None>>
    /\ s' = Root
    /\ k' = InitialK
    /\ i' = 0
    /\ p' = 0
    /\ pc' = "for"
    /\ ret' = "for"
    /\ oldr' = None
    /\ r' = None
    /\ end_point' = FALSE
    /\ k_prime' = 0
    /\ p_prime' = 0
    /\ s_prime' = None
    /\ reads' = {}
    /\ steps' = 0
    /\ err' = "none"
    /\ dump' = <<>>
    /\ result' = None
    /\ splits' = {}
    /\ entry' = [g |-> <<>>, f |-> <<>>, ep |-> FALSE]

\* before make_stree is called
Init ==
    /\ t = <<>>
    /\ g = <<>>
    /\ f = <<>>
    /\ s = None
    /\ k = 0
    /\ i = 0
    /\ p = 0
    /\ pc = "call"
    /\ ret = "for"
    /\ oldr = None
    /\ r = None
    /\ end_point = FALSE
    /\ k_prime = 0
    /\ p_prime = 0
    /\ s_prime = None
    /\ reads = {}
    /\ steps = 0
    /\ err = "none"
    /\ dump = <<>>
    /\ result = None
    /\ run = 0
    /\ first = <<>>
    /\ splits = {}
    /\ entry = [g |-> <<>>, f |-> <<>>, ep |-> FALSE]

\* a caller passes some sequence to make_stree
Call ==
    /\ pc = "call"
    /\ \E w \in Inputs : \E q \in Orders(SymbolsOf(w)) : Setup(w, q)
    /\ run' = 1
    /\ first' = first

\* ---------------------------------------------------------- test_and_split
\* line 63: the position on the edge that follows the active point
NextOnEdge_OffByOne(kp, kk, pp) == kp + pp - kk
NextOnEdge(kp, kk, pp) == kp + pp - kk + 1

\* line 63: the symbol there is the one to add
SameSymbol(char, j) == char = At(j)

\* line 68: the end of the edge shortened by a split
SplitEnd_OffByOne(kp, kk, pp) == kp + pp - kk - 1
SplitEnd(kp, kk, pp) == kp + pp - kk

Bad(rd) == \E j \in rd : ~InRange(j)

Failed(e, rd) ==
    [end_point |-> FALSE, r |-> None, g |-> g, f |-> f, reads |-> rd,
     err |-> IF Bad(rd) THEN "IndexError" ELSE e]

Split(v, kk, pp, e) ==
    LET rr == Len(g) + 1
        c1 == At(e[1])
    IN  IF Bad({e[1]}) \/ c1 \notin DOMAIN g[v]
        THEN Failed("KeyError", {kk, NextOnEdge(e[1], kk, pp), e[1]})
        ELSE LET e2 == g[v][c1]
                 k2 == e2[1]
                 j2 == k2 + pp - kk + 1
                 g1 == PopEdge(NewState(g), v, c1)
                 g2 == SetEdge(g1, v, At(k2), <<k2, SplitEnd(k2, kk, pp), rr>>)
                 g3 == SetEdge(g2, rr, At(j2), <<j2, e2[2], e2[3]>>)
                 rd == {kk, NextOnEdge(e[1], kk, pp), e[1], k2, j2}
             IN  IF Bad(rd) THEN Failed("IndexError", rd)
                 ELSE [end_point |-> FALSE, r |-> rr, g |-> g3, f |-> NewLink(f),
                       reads |-> rd, err |-> "none"]

test_and_split(v, kk, pp, char) ==
    IF v = None THEN Failed("AttributeError", {})
    ELSE IF kk <= pp
    THEN IF Bad({kk}) \/ At(kk) \notin DOMAIN g[v] THEN Failed("KeyError", {kk})
         ELSE LET e == g[v][At(kk)]
                  j == NextOnEdge(e[1], kk, pp)
              IN  IF Bad({j}) THEN Failed("IndexError", {kk, j})
                  ELSE IF SameSymbol(char, j)
                  THEN [end_point |-> TRUE, r |-> v, g |-> g, f |-> f,
                        reads |-> {kk, j}, err |-> "none"]
                  ELSE Split(v, kk, pp, e)
    ELSE [end_point |-> char \in DOMAIN g[v], r |-> v, g |-> g, f |-> f,
          reads |-> {}, err |-> "none"]

\* the node made by State() in line 66, if the call split an edge
Created(res) == IF res.r \in DOMAIN g THEN {} ELSE {res.r}

\* ------------------------------------------------------------- the steps
Raise(e, rd) ==
    /\ pc' = "raised"
    /\ err' = e
    /\ reads' = reads \cup rd

\* range(1, len(t)) has a next item after i
MoreItems_Inclusive == i <= n
MoreItems == i < n

\* line 98: return root
ReturnValue_Bot == Bot
ReturnValue == Root

\* for i in range(1, len(t)): ... return root
ForLoop ==
    /\ pc = "for"
    /\ i' = IF MoreItems THEN i + 1 ELSE i
    /\ pc' = IF MoreItems THEN "update" ELSE "done"
    /\ result' = IF MoreItems THEN result ELSE ReturnValue
    /\ entry' = IF MoreItems THEN [g |-> g, f |-> f, ep |-> FALSE] ELSE entry
    /\ UNCHANGED <<t, g, f, s, k, p, ret, oldr, r, end_point,
                   k_prime, p_prime, s_prime, reads, steps, err, dump, run, first, splits>>

\* line 46: oldr = root
FirstOldr_Stale == oldr
FirstOldr == Root

\* update, lines 46-47
Update ==
    /\ pc = "update"
    /\ LET res == test_and_split(s, k, i - 1, At(i))
       IN  IF res.err # "none"
           THEN /\ Raise(res.err, res.reads \cup {i})
                /\ UNCHANGED <<g, f, end_point, r, oldr, splits, entry>>
           ELSE /\ oldr' = FirstOldr
                /\ end_point' = res.end_point
                /\ r' = res.r
                /\ g' = res.g
                /\ f' = res.f
                /\ reads' = reads \cup res.reads \cup {i}
                /\ pc' = "while"
                /\ err' = err
                /\ splits' = splits \cup Created(res)
                /\ entry' = [entry EXCEPT !.ep = res.end_point]
    /\ UNCHANGED <<t, s, k, i, p, ret, k_prime, p_prime, s_prime, steps, dump, result, run, first>>

\* lines 51 and 56: if oldr != root
HasPending_Always == TRUE
HasPending_Never == FALSE
HasPending == oldr # Root

\* line 57: the node oldr.f is set to after the loop
EndPointLink_Root == Root
EndPointLink == s

\* line 50: the edge to the new leaf r_prime
NewLeafEdge_EarlyStart(ii, r_prime) == <<ii - 1, INF, r_prime>>
NewLeafEdge_Closed(ii, r_prime) == <<ii, ii, r_prime>>
NewLeafEdge(ii, r_prime) == <<ii, INF, r_prime>>

\* update, lines 49-54: the body of the while loop up to the call of canonize
UpdateExtend ==
    /\ pc = "while"
    /\ ~end_point
    /\ LET r_prime == Len(g) + 1
           g1 == SetEdge(NewState(g), r, At(i), NewLeafEdge(i, r_prime))
           f1 == NewLink(f)
           f2 == IF HasPending THEN [f1 EXCEPT ![oldr] = r] ELSE f1
       IN  /\ g' = g1
           /\ f' = f2
           /\ oldr' = r
           /\ s' = IF s = None THEN None ELSE f2[s]
           /\ p' = i - 1
           /\ reads' = reads \cup {i}
    /\ pc' = IF s = None THEN "raised" ELSE "canonize"
    /\ err' = IF s = None THEN "AttributeError" ELSE err
    /\ ret' = "retest"
    /\ UNCHANGED <<t, k, i, r, end_point, k_prime, p_prime, s_prime, steps, dump, result, run, first, splits, entry>>

\* update, line 55
Retest ==
    /\ pc = "retest"
    /\ LET res == test_and_split(s, k, i - 1, At(i))
       IN  IF res.err # "none"
           THEN /\ Raise(res.err, res.reads \cup {i})
                /\ UNCHANGED <<g, f, end_point, r, splits>>
           ELSE /\ end_point' = res.end_point
                /\ r' = res.r
                /\ g' = res.g
                /\ f' = res.f
                /\ reads' = reads \cup res.reads \cup {i}
                /\ pc' = "while"
                /\ err' = err
                /\ splits' = splits \cup Created(res)
    /\ UNCHANGED <<t, s, k, i, p, ret, oldr, k_prime, p_prime, s_prime, steps, dump, result, run, first, entry>>

\* update, lines 56-58, and the call of canonize in line 97
UpdateReturn ==
    /\ pc = "while"
    /\ end_point
    /\ f' = IF HasPending THEN [f EXCEPT ![oldr] = EndPointLink] ELSE f
    /\ p' = i
    /\ pc' = "canonize"
    /\ ret' = "for"
    /\ UNCHANGED <<t, g, s, k, i, oldr, r, end_point, k_prime, p_prime, s_prime,
                   reads, steps, err, dump, result, run, first, splits, entry>>

\* canonize, lines 76-79
Canonize ==
    /\ pc = "canonize"
    /\ IF p < k
       THEN /\ pc' = ret
            /\ UNCHANGED <<k_prime, p_prime, s_prime, reads, err>>
       ELSE IF s = None
       THEN /\ Raise("AttributeError", {})
            /\ UNCHANGED <<k_prime, p_prime, s_prime>>
       ELSE IF Bad({k}) \/ At(k) \notin DOMAIN g[s]
       THEN /\ Raise(IF Bad({k}) THEN "IndexError" ELSE "KeyError", {k})
            /\ UNCHANGED <<k_prime, p_prime, s_prime>>
       ELSE /\ k_prime' = g[s][At(k)][1]
            /\ p_prime' = g[s][At(k)][2]
            /\ s_prime' = g[s][At(k)][3]
            /\ reads' = reads \cup {k}
            /\ pc' = "canon_while"
            /\ err' = err
    /\ UNCHANGED <<t, g, f, s, k, i, p, ret, oldr, r, end_point, steps, dump, result, run, first, splits, entry>>

\* line 80: the edge (kp, pp) is no longer than the rest kk..p of the active point
WholeEdge_NoStart(kp, pp, kk) == pp - kp <= p
WholeEdge_Reversed(kp, pp, kk) == pp - kp >= p - kk
WholeEdge(kp, pp, kk) == pp - kp <= p - kk

\* line 81
Advance(kk, kp, pp) == kk + pp - kp + 1

\* canonize, lines 80-84: one iteration of the while loop
CanonizeStep ==
    /\ pc = "canon_while"
    /\ WholeEdge(k_prime, p_prime, k)
    /\ LET k1 == Advance(k, k_prime, p_prime)
           s1 == s_prime
       IN  /\ k' = k1
           /\ s' = s1
           /\ steps' = steps + 1
           /\ IF k1 <= p
              THEN IF s1 = None
                   THEN /\ Raise("AttributeError", {})
                        /\ UNCHANGED <<k_prime, p_prime, s_prime>>
                   ELSE IF ~InRange(k1) \/ At(k1) \notin DOMAIN g[s1]
                   THEN /\ Raise(IF InRange(k1) THEN "KeyError" ELSE "IndexError", {k1})
                        /\ UNCHANGED <<k_prime, p_prime, s_prime>>
                   ELSE /\ k_prime' = g[s1][At(k1)][1]
                        /\ p_prime' = g[s1][At(k1)][2]
                        /\ s_prime' = g[s1][At(k1)][3]
                        /\ reads' = reads \cup {k1}
                        /\ UNCHANGED <<pc, err>>
              ELSE UNCHANGED <<k_prime, p_prime, s_prime, reads, pc, err>>
    /\ UNCHANGED <<t, g, f, i, p, ret, oldr, r, end_point, dump, result, run, first, splits, entry>>

\* canonize, line 85, reached from the while loop
CanonizeReturn ==
    /\ pc = "canon_while"
    /\ ~WholeEdge(k_prime, p_prime, k)
    /\ pc' = ret
    /\ UNCHANGED <<t, g, f, s, k, i, p, ret, oldr, r, end_point,
                   k_prime, p_prime, s_prime, reads, steps, err, dump, result, run, first, splits, entry>>

\* ------------------------------------------------------ get_debug_string
\* t[a:b]
Norm(a) == IF a < 0 THEN (IF a + n + 1 < 0 THEN 0 ELSE a + n + 1)
           ELSE (IF a > n + 1 THEN n + 1 ELSE a)
Slice(a, b) == [j \in 1..(Norm(b) - Norm(a)) |-> t[Norm(a) + j - 1]]

\* the order of sorted() on the tuples (k, p, s): by k, then by p
Before_Descending(e1, e2) == e1[1] > e2[1] \/ (e1[1] = e2[1] /\ e1[2] > e2[2])
Before(e1, e2) == e1[1] < e2[1] \/ (e1[1] = e2[1] /\ e1[2] < e2[2])

RECURSIVE SortedKeys(_, _)
SortedKeys(v, C) ==
    IF C = {} THEN <<>>
    ELSE LET c == CHOOSE c \in C : \A d \in C : ~Before(g[v][d], g[v][c])
         IN  <<c>> \o SortedKeys(v, C \ {c})

\* sorted(self.g.values())
sorted(v) == LET ks == SortedKeys(v, DOMAIN g[v]) IN [j \in DOMAIN ks |-> g[v][ks[j]]]

\* '%s' % p: the token inf for an open end, the digits of p otherwise
Fmt(pp) == IF pp = INF THEN <<"inf">> ELSE <<"int", pp>>

\* line 39-40: one line of the result, without its number
Line(e, indent) ==
    <<3 * indent, e[1], Fmt(e[2]),
      Slice(e[1], IF e[2] = INF THEN n + 1 ELSE e[2] + 1)>>

RECURSIVE impl(_, _)
RECURSIVE implFrom(_, _, _)
impl(v, indent) == implFrom(sorted(v), 1, indent)
implFrom(es, j, indent) ==
    IF j > Len(es) THEN <<>>
    ELSE <<Line(es[j], indent)>> \o impl(es[j][3], indent + 1) \o implFrom(es, j + 1, indent)

\* line 43: enumerate(result)
get_debug_string(v) ==
    LET lines == impl(v, 0) IN [j \in DOMAIN lines |-> <<j - 1>> \o lines[j]]

\* make_stree(t).get_debug_string()
GetDebugString ==
    /\ pc = "done"
    /\ dump' = get_debug_string(result)
    /\ pc' = "dumped"
    /\ UNCHANGED <<t, g, f, s, k, i, p, ret, oldr, r, end_point,
                   k_prime, p_prime, s_prime, reads, steps, err, result, run, first, splits, entry>>

Next ==
    \/ Call
    \/ ForLoop
    \/ Update
    \/ UpdateExtend
    \/ Retest
    \/ UpdateReturn
    \/ Canonize
    \/ CanonizeStep
    \/ CanonizeReturn
    \/ GetDebugString

Spec == Init /\ [][Next]_vars

\* ------------------------------------------------- a second call of make_stree
\* the tree handed back by make_stree: every node but the auxiliary one
Tree == [root |-> result, edges |-> [v \in (DOMAIN g) \ {Bot} |-> g[v]], links |-> f,
         bot |-> g[Bot]]

FirstOrder(w) ==
    CHOOSE q \in Orders(SymbolsOf(w)) :
        \A a, b \in DOMAIN q : a < b =>
            (CHOOSE j \in 1..Len(w) : w[j] = q[a] /\ \A x \in 1..(j - 1) : w[x] # q[a])
          < (CHOOSE j \in 1..Len(w) : w[j] = q[b] /\ \A x \in 1..(j - 1) : w[x] # q[b])

\* the first call, with set(t) iterating in order of first occurrence
CallFirst ==
    /\ pc = "call"
    /\ \E w \in Inputs : Setup(w, FirstOrder(w))
    /\ run' = 1
    /\ first' = first

\* the sequence passed to make_stree
Input == [j \in 1..n |-> t[j]]

\* make_stree is called again on the same sequence; set(t) iterates in any order
Rebuild ==
    /\ pc = "done"
    /\ run = 1
    /\ run' = 2
    /\ first' = Tree
    /\ \E q \in Orders(SymbolsOf(Input)) : Setup(Input, q)

NextTwice ==
    \/ CallFirst
    \/ ForLoop
    \/ Update
    \/ UpdateExtend
    \/ Retest
    \/ UpdateReturn
    \/ Canonize
    \/ CanonizeStep
    \/ CanonizeReturn
    \/ Rebuild

SpecTwice == Init /\ [][NextTwice]_vars

\* ------------------------------------------------- reading the tree
\* t[j], total
Char(j) == IF j \in 0..n THEN t[j] ELSE "?"

\* the label of edge e when the open end stands for position b
EndOf(e, b) == IF e[2] = INF THEN b ELSE e[2]
EdgeLabel(e, b) == [x \in 1..(EndOf(e, b) - e[1] + 1) |-> Char(e[1] + x - 1)]

\* t[j..b]
Suffix(j, b) == [x \in 1..(b - j + 1) |-> Char(j + x - 1)]

\* the pairs <<leaf, string spelled from v to the leaf, prefixed by pre>>
RECURSIVE LeafPaths(_, _, _)
LeafPaths(v, pre, b) ==
    IF DOMAIN g[v] = {} THEN {<<v, pre>>}
    ELSE UNION {LeafPaths(g[v][c][3], pre \o EdgeLabel(g[v][c], b), b) : c \in DOMAIN g[v]}

\* the nodes reached from v along edges
RECURSIVE Reach(_)
Reach(v) == {v} \cup UNION {Reach(g[v][c][3]) : c \in DOMAIN g[v]}

\* the internal nodes of the tree below v: v and every node with an outgoing edge
Internal(v) == {v} \cup {u \in Reach(v) : DOMAIN g[u] # {}}
InternalNodes == Internal(Root)

\* the last symbol of the input occurs nowhere else in it
UniqueLast == n >= 1 /\ \A j \in 1..(n - 1) : t[j] # t[n]

Returned == pc \in {"done", "dumped"}

\* a phase is complete: update and canonize for position i have returned
PhaseDone == pc = "for" /\ i >= 1

\* C1: for an input of length n >= 1 whose last symbol is unique, the returned
\* tree has exactly n leaves, and the strings spelled from the root to the
\* leaves are exactly the n suffixes t[j..n], each spelled by one leaf.
C1_LeafSuffix ==
    (Returned /\ UniqueLast) =>
        LET L == LeafPaths(result, <<>>, n)
        IN  /\ Cardinality(L) = n
            /\ Cardinality({x[1] : x \in L}) = n
            /\ {x[2] : x \in L} = {Suffix(j, n) : j \in 1..n}

C1_Witness ==
    /\ pc = "done"
    /\ UniqueLast
    /\ n = MaxLen
    /\ Cardinality(InternalNodes) >= 3
    /\ Cardinality(LeafPaths(result, <<>>, n)) = n

\* the documented dumps (docstring of make_stree and test): one tuple
\* <<number, indentation, start, end token, label>> per line
CacaoDump ==
    <<
      <<0, 0, 1, <<"int", 2>>, <<"c", "a">>>>,
      <<1, 3, 3, <<"inf">>, <<"c", "a", "o">>>>,
      <<2, 3, 5, <<"inf">>, <<"o">>>>,
      <<3, 0, 2, <<"int", 2>>, <<"a">>>>,
      <<4, 3, 3, <<"inf">>, <<"c", "a", "o">>>>,
      <<5, 3, 5, <<"inf">>, <<"o">>>>,
      <<6, 0, 5, <<"inf">>, <<"o">>>>
    >>

MississippiDump ==
    <<
      <<0, 0, 1, <<"inf">>, <<"m", "i", "s", "s", "i", "s", "s", "i", "p", "p", "i", "$">>>>,
      <<1, 0, 2, <<"int", 2>>, <<"i">>>>,
      <<2, 3, 3, <<"int", 5>>, <<"s", "s", "i">>>>,
      <<3, 6, 6, <<"inf">>, <<"s", "s", "i", "p", "p", "i", "$">>>>,
      <<4, 6, 9, <<"inf">>, <<"p", "p", "i", "$">>>>,
      <<5, 3, 9, <<"inf">>, <<"p", "p", "i", "$">>>>,
      <<6, 3, 12, <<"inf">>, <<"$">>>>,
      <<7, 0, 3, <<"int", 3>>, <<"s">>>>,
      <<8, 3, 4, <<"int", 5>>, <<"s", "i">>>>,
      <<9, 6, 6, <<"inf">>, <<"s", "s", "i", "p", "p", "i", "$">>>>,
      <<10, 6, 9, <<"inf">>, <<"p", "p", "i", "$">>>>,
      <<11, 3, 5, <<"int", 5>>, <<"i">>>>,
      <<12, 6, 6, <<"inf">>, <<"s", "s", "i", "p", "p", "i", "$">>>>,
      <<13, 6, 9, <<"inf">>, <<"p", "p", "i", "$">>>>,
      <<14, 0, 9, <<"int", 9>>, <<"p">>>>,
      <<15, 3, 10, <<"inf">>, <<"p", "i", "$">>>>,
      <<16, 3, 11, <<"inf">>, <<"i", "$">>>>,
      <<17, 0, 12, <<"inf">>, <<"$">>>>
    >>

\* C2: for 'cacao' and 'mississippi$' the dump of the returned root lists
\* exactly the documented edges in the documented order, numbered from 0,
\* with the documented indentation, (start,end) pair and label.
C2_Scenarios ==
    pc = "dumped" =>
        /\ (t = Padded(Cacao) => dump = CacaoDump)
        /\ (t = Padded(Mississippi) => dump = MississippiDump)

C2_Witness ==
    /\ pc = "dumped"
    /\ t = Padded(Mississippi)
    /\ Len(dump) = 18

C2_WitnessCacao ==
    /\ pc = "dumped"
    /\ t = Padded(Cacao)
    /\ Len(dump) = 7

\* C3: for an input of length n >= 1 whose last symbol is unique, the returned
\* tree has at most n internal nodes, the root and every node with an
\* outgoing edge counted, leaves and the auxiliary node not counted.
C3_InternalBound ==
    (Returned /\ UniqueLast) => Cardinality(Internal(result)) <= n

C3_Witness ==
    /\ pc = "done"
    /\ UniqueLast
    /\ n >= 4
    /\ Cardinality(Internal(result)) = n - 1
    /\ Bot \notin Internal(result)

\* C5: on the empty sequence no error is raised, no phase is run and the
\* returned root has no outgoing edge.
C5_Empty ==
    (pc # "call" /\ n = 0) =>
        /\ err = "none"
        /\ pc \in {"for", "done", "dumped"}
        /\ i = 0
        /\ Len(g) = 2
        /\ (Returned => (result = Root /\ DOMAIN g[result] = {}))

C5_Witness ==
    /\ n = 0
    /\ pc = "done"
    /\ DOMAIN g[result] = {}

\* C6: on a sequence of one symbol the returned root has exactly one outgoing
\* edge, keyed by that symbol, with start 1 and an open end, and the node it
\* leads to has no outgoing edge.
C6_Single ==
    (Returned /\ n = 1) =>
        /\ result = Root
        /\ DOMAIN g[result] = {t[1]}
        /\ g[result][t[1]][1] = 1
        /\ g[result][t[1]][2] = INF
        /\ g[result][t[1]][3] \in DOMAIN g
        /\ DOMAIN g[g[result][t[1]][3]] = {}

C6_Witness ==
    /\ pc = "done"
    /\ n = 1
    /\ Cardinality(DOMAIN g[result]) = 1
    /\ steps = 1

\* C4: a second run of make_stree on the same sequence, with the symbols of
\* set(t) enumerated in another order, returns the same tree: the same root,
\* the same edges with the same (start, end) at every node and the same
\* suffix links.
C4_OrderIndependent ==
    (run = 2 /\ Returned) =>
        /\ Tree.root = first.root
        /\ Tree.edges = first.edges
        /\ Tree.links = first.links

C4_Witness ==
    /\ run = 2
    /\ pc = "done"
    /\ g[Bot] # first.bot
    /\ n >= 4
    /\ Cardinality(InternalNodes) >= 3

\* the position in the code, ranked so that straight-line progress descends
PcRank ==
    CASE pc = "update" -> 9
      [] pc = "canonize" /\ ret = "retest" -> 8
      [] pc = "canon_while" /\ ret = "retest" -> 7
      [] pc = "retest" -> 6
      [] pc = "while" -> 5
      [] pc = "canonize" /\ ret = "for" -> 4
      [] pc = "canon_while" /\ ret = "for" -> 3
      [] pc = "for" -> 2
      [] pc = "done" -> 1
      [] OTHER -> 0

\* phases left, nodes still to create, positions left for the start k of the
\* active point, position in the code
Rank == <<n - i, 2 * n + 2 - Len(g), n + 1 - k, PcRank>>

LexLess(a, b) ==
    \E j \in 1..4 : a[j] < b[j] /\ \A h \in 1..(j - 1) : a[h] = b[h]

\* C7: make_stree terminates on every input: every step of a run, in
\* particular every iteration of the loop of update and of the loop of
\* canonize, strictly decreases a rank of four natural numbers in
\* lexicographic order, so no run has infinitely many steps.
C7_Terminates ==
    [][pc # "call" =>
          /\ LexLess(Rank', Rank)
          /\ \A j \in 1..4 : Rank[j] >= 0 /\ Rank'[j] >= 0]_vars

C7_Witness ==
    /\ pc = "done"
    /\ n = MaxLen
    /\ steps >= 3
    /\ Len(g) >= n + 3

\* C8: no step fails: no lookup misses, no suffix link that is followed is
\* None, and every index at which the sequence is read lies in 1..n.
C8_NoFailure ==
    /\ err = "none"
    /\ pc # "raised"
    /\ (pc # "call" => s # None)
    /\ reads \subseteq 1..n

C8_Witness ==
    /\ pc = "done"
    /\ n = MaxLen
    /\ reads = 1..n
    /\ Cardinality(InternalNodes) >= 3

\* C9: the number of iterations of the while loop of canonize, summed over
\* all its calls in a run (the steps from the auxiliary node to the root
\* included), never exceeds 2 * n.
C9_CanonizeSteps == pc # "call" => steps <= 2 * n

C9_Witness ==
    /\ pc = "done"
    /\ n = MaxLen
    /\ steps = n

\* C10: after every complete phase i, every leaf below the root spells, with
\* the open end read as i, a suffix t[j..i] of the processed prefix, and no
\* two leaves spell the same string.
C10_LeavesAreSuffixes ==
    PhaseDone =>
        LET L == LeafPaths(Root, <<>>, i)
        IN  /\ \A x \in L : \E j \in 1..i : x[2] = Suffix(j, i)
            /\ \A x, y \in L : x[2] = y[2] => x[1] = y[1]
            /\ Cardinality({x[1] : x \in L}) = Cardinality(L)

C10_Witness ==
    /\ PhaseDone
    /\ i < n
    /\ i >= 3
    /\ Cardinality(LeafPaths(Root, <<>>, i)) \in 2..(i - 1)
    /\ Cardinality(InternalNodes) >= 2

\* ------------------------------------------------- strings in the tree
\* the first m symbols of the string x
Prefix(x, m) == [j \in 1..m |-> x[j]]

\* the strings spelled from the root to a node or to a point inside an edge,
\* open ends read as b: the prefixes of the strings spelled to the leaves
Spelled(b) ==
    {Prefix(x[2], m) : <<x, m>> \in
        {y \in LeafPaths(Root, <<>>, b) \X (0..b) : y[2] <= Len(y[1][2])}}

\* the substrings of t[1..b], the empty one included
Substrings(b) == {<<>>} \cup {Suffix(a, c) : <<a, c>> \in {y \in (1..b) \X (1..b) : y[1] <= y[2]}}

\* C11: after every complete phase i, for any input, the strings spelled from
\* the root to a node or to a point inside an edge (open ends read as i) are
\* exactly the substrings of t[1..i].
C11_Substrings ==
    PhaseDone => (Spelled(i) = Substrings(i) /\ \A x \in LeafPaths(Root, <<>>, i) : Len(x[2]) <= i)

C11_Witness ==
    /\ PhaseDone
    /\ i >= 4
    /\ ~UniqueLast
    /\ k <= i
    /\ Cardinality(LeafPaths(Root, <<>>, i)) < i
    /\ Cardinality(InternalNodes) >= 2
    /\ Cardinality(Substrings(i)) >= 8

\* C12: after every complete phase, at every node reached from the root each
\* edge stored under key c starts with the symbol c (t[start] = c), so the
\* edges of a node have pairwise distinct first symbols and start indices.
C12_KeyIsFirstSymbol ==
    PhaseDone =>
        \A v \in Reach(Root) :
            /\ \A c \in DOMAIN g[v] : Char(g[v][c][1]) = c
            /\ \A c, d \in DOMAIN g[v] : c # d =>
                  /\ g[v][c][1] # g[v][d][1]
                  /\ Char(g[v][c][1]) # Char(g[v][d][1])

C12_Witness ==
    /\ PhaseDone
    /\ \E v \in Reach(Root) \ {Root} : Cardinality(DOMAIN g[v]) >= 2
    /\ Cardinality(DOMAIN g[Root]) >= 3

\* the statement of C13 as claimed: after every complete phase and in the
\* returned tree, every node reached from the root other than the root has
\* its suffix link set
C13_AsClaimed ==
    (PhaseDone \/ Returned) => \A v \in Reach(Root) \ {Root} : f[v] # None

\* C13: after every complete phase and in the returned tree, every node
\* reached from the root, other than the root, that has an outgoing edge has
\* its suffix link set (f is a node, not None); the leaves have f = None.
C13_InternalLinked ==
    (PhaseDone \/ Returned) =>
        \A v \in Reach(Root) \ {Root} :
            IF DOMAIN g[v] # {} THEN f[v] \in DOMAIN g ELSE f[v] = None

C13_Witness ==
    /\ pc = "done"
    /\ Cardinality({v \in Reach(Root) \ {Root} : DOMAIN g[v] # {} /\ f[v] # None}) >= 3
    /\ \E v \in Reach(Root) : DOMAIN g[v] = {} /\ f[v] = None


\* --------------------------------------------- suffix links of split nodes
\* the split node whose link is still to be set: the oldr of update (lines
\* 46, 53), or the r a test_and_split has just returned (lines 47, 55)
Pending ==
    IF pc = "while" THEN (IF end_point THEN {oldr} ELSE {oldr, r})
    ELSE IF pc \in {"canonize", "canon_while", "retest"} /\ ret = "retest" THEN {oldr}
    ELSE {}

\* C14: every node created by a split in phase i has its suffix link set
\* before update for phase i returns: while update runs the only split node
\* with f = None is the one waiting for the next iteration (oldr.f = r) or
\* for the assignment after the loop (oldr.f = s), and once update has
\* returned, hence at the end of every phase, no split node has f = None.
C14_SplitLinked ==
    /\ splits \subseteq DOMAIN g \ {Root, Bot}
    /\ \A v \in splits : f[v] = None => v \in Pending
    /\ (pc \in {"for", "done", "dumped"} \/ (pc \in {"canonize", "canon_while"} /\ ret = "for")) =>
           \A v \in splits : f[v] \in DOMAIN g

C14_Witness ==
    /\ PhaseDone
    /\ Cardinality({v \in splits : g[v][At(i)][1] = i}) >= 2
    /\ entry.f # f


\* --------------------------------------------- the strings of the nodes
\* the pairs <<u, string spelled from v to u, prefixed by pre>> for every node
\* u reached from v in the edge store G
RECURSIVE NodePathsIn(_, _, _, _)
NodePathsIn(G, v, pre, b) ==
    {<<v, pre>>} \cup
    UNION {NodePathsIn(G, G[v][c][3], pre \o EdgeLabel(G[v][c], b), b) : c \in DOMAIN G[v]}

NodePaths == NodePathsIn(g, Root, <<>>, i)

\* the nodes with an outgoing edge other than the root, with their strings
InnerPaths == {x \in NodePaths : x[1] # Root /\ DOMAIN g[x[1]] # {}}

\* C15: after every complete phase the suffix link of every internal node
\* other than the root, spelling cX, is the node spelling exactly X (the root
\* when X is empty); and when the loop of update ends with a pending oldr, the
\* end point s that 'oldr.f = s' assigns is an explicit node (k > i - 1)
\* spelling X.
C15_LinkDropsFirst ==
    /\ PhaseDone =>
           \A x \in InnerPaths :
               /\ Len(x[2]) >= 1
               /\ f[x[1]] \in DOMAIN g
               /\ <<f[x[1]], Tail(x[2])>> \in NodePaths
               /\ (Len(x[2]) = 1 <=> f[x[1]] = Root)
    /\ (pc = "while" /\ end_point /\ HasPending) =>
           /\ k = i
           /\ \A x \in NodePaths : x[1] = oldr => <<s, Tail(x[2])>> \in NodePaths

C15_Witness ==
    /\ PhaseDone
    /\ \E x \in InnerPaths : Len(x[2]) >= 2 /\ f[x[1]] \notin {Root, None}
    /\ \E x \in InnerPaths : f[x[1]] = Root
    /\ oldr \in splits /\ oldr \notin DOMAIN entry.g /\ f[oldr] \notin {Root, None}


\* C16: at every call of test_and_split (lines 47 and 55, with p = i - 1) and
\* of canonize (lines 54 and 97) the start k is at most p + 1, k stays at most
\* p + 1 inside canonize, and the k that canonize returns (to line 55 with
\* p = i - 1, to line 97 with p = i) is at most p + 1.
C16_StartWithinBoundary ==
    /\ pc \in {"update", "retest"} => k <= (i - 1) + 1
    /\ pc \in {"canonize", "canon_while"} => k <= p + 1
    /\ pc = "retest" => p = i - 1 /\ k <= p + 1
    /\ PhaseDone => p = i /\ k <= p + 1

C16_Witness ==
    /\ pc = "retest" /\ k = p + 1 /\ steps >= 1 /\ s \notin {Root, Bot}
    /\ i >= 4


\* C17: a call of test_and_split that reports an end point leaves every
\* node, edge and suffix link as it was; and a phase whose first
\* test_and_split reports an end point ends with the node store it started
\* with (same nodes, same edges, same suffix links): only s and k may differ.
C17_EndPointFrame ==
    [][/\ (pc \in {"update", "retest"} /\ pc' = "while" /\ end_point') => (g' = g /\ f' = f)
       /\ (PhaseDone' /\ entry'.ep) => (g' = entry'.g /\ f' = entry'.f)]_vars

C17_Witness ==
    /\ PhaseDone /\ entry.ep /\ g = entry.g /\ f = entry.f
    /\ s \notin {Root, Bot}
    /\ i >= 4
    /\ Cardinality(splits) >= 1


\* ------------------------------------------------------------- the split
\* the nodes reached from v along the edges of G
RECURSIVE ReachIn(_, _)
ReachIn(G, v) == {v} \cup UNION {ReachIn(G, G[v][c][3]) : c \in DOMAIN G[v]}

\* a step is a call of test_and_split that split an edge
SplitStep == pc \in {"update", "retest"} /\ pc' = "while" /\ Len(g') # Len(g)

\* C18: a split creates exactly one new node r and changes exactly one
\* existing edge, the edge of s keyed by t[k]: it keeps its start, gets the
\* closed end start + (p - k) and the target r; r receives one edge
\* (start + (p - k) + 1, original end) to the original child.  No other
\* node's edges change, no suffix link changes, every node reached from the
\* root before is still reached, with the same string.
C18_SplitFrame ==
    [][SplitStep =>
          LET e == g[s][At(k)]
              pp == i - 1
          IN  /\ Len(g') = Len(g) + 1
              /\ r' = Len(g) + 1
              /\ ~end_point'
              /\ DOMAIN g'[s] = DOMAIN g[s]
              /\ g'[s][At(k)] = <<e[1], e[1] + (pp - k), r'>>
              /\ \A c \in DOMAIN g[s] \ {At(k)} : g'[s][c] = g[s][c]
              /\ \A v \in DOMAIN g \ {s} : g'[v] = g[v]
              /\ DOMAIN g'[r'] = {At(e[1] + (pp - k) + 1)}
              /\ \A c \in DOMAIN g'[r'] : g'[r'][c] = <<e[1] + (pp - k) + 1, e[2], e[3]>>
              /\ e[1] + (pp - k) < EndOf(e, pp)
              /\ f'[r'] = None /\ \A v \in DOMAIN f : f'[v] = f[v]
              /\ ReachIn(g', Root) = ReachIn(g, Root) \cup {r'}
              /\ NodePathsIn(g, Root, <<>>, pp) \subseteq NodePathsIn(g', Root, <<>>, pp)
              /\ \A x \in NodePathsIn(g', Root, <<>>, pp) :
                    x[1] = r' \/ x \in NodePathsIn(g, Root, <<>>, pp)]_vars

C18_Witness ==
    /\ pc = "while" /\ ~end_point /\ r = Len(g) /\ r \in splits
    /\ \E c \in DOMAIN g[r] : g[r][c][2] # INF /\ DOMAIN g[g[r][c][3]] # {}
    /\ Cardinality(ReachIn(g, Root)) >= 6


\* ------------------------------------------------------ the auxiliary node
\* t[i] occurs nowhere in t[1..i-1]
NewSymbol == i >= 1 /\ \A j \in 1..(i - 1) : At(j) # At(i)

InPhase == pc \in {"update", "while", "retest", "canonize", "canon_while"}

\* the statement of C19 as claimed: once phase 1 is complete the suffix link
\* of the root is not the auxiliary node, and in no phase i >= 2 is the
\* auxiliary node the active node of a call of test_and_split or canonize
C19_AsClaimed ==
    /\ PhaseDone => f[Root] # Bot
    /\ (InPhase /\ i >= 2) => s # Bot

\* C19: the auxiliary node takes part in every phase that follows the suffix
\* link of the root, not only in phase 1: the suffix link of the root is the
\* auxiliary node from setup to the end; canonize may be called with the
\* auxiliary node as s in any phase; test_and_split is called with it only in
\* a phase whose symbol t[i] occurs nowhere in t[1..i-1] (with k = i, and it
\* answers end point), and every such phase ends that way; the auxiliary
\* node is never the active node s when a phase is complete.
C19_BotOnlyForNewSymbols ==
    /\ pc # "call" => f[Root] = Bot
    /\ pc = "update" => s # Bot
    /\ (pc = "retest" /\ s = Bot) => (NewSymbol /\ k = i)
    /\ (pc = "while" /\ s = Bot) => (NewSymbol /\ end_point /\ r = Bot)
    /\ PhaseDone => (s # Bot /\ (r = Bot <=> NewSymbol))

C19_Witness ==
    /\ PhaseDone /\ i >= 3 /\ NewSymbol /\ r = Bot /\ f[Root] = Bot
    /\ \E v \in splits : g[v][At(i)][1] = i

====
